---- MODULE Spec2Model ----
(***************************************************************************)
(* State-machine model of the capture-to-storage pipeline of               *)
(* IISC_VRT_GCS_Integration: src/app.py (recording streams, staging        *)
(* watcher, segmenter, metadata upload) and src/drive_client.py (remote    *)
(* store adapter, folder sequencer, session listing).                      *)
(*                                                                         *)
(* Text is modelled as a sequence of one-character strings, so that        *)
(* formatting (f"Data{n}", f"Clip{n:03d}.webm") and parsing (re.match,     *)
(* int(), Path.suffix) are computed the way the code computes them.        *)
(***************************************************************************)
EXTENDS Integers, Sequences, FiniteSets, TLC

VARIABLES
    drive,        \* remote store: set of objects [id, title, parent, isFolder, content]
    nextId,       \* next identity the remote store hands out
    dirs,         \* directories under static/temp, each a path <<part, ...>>
    files,        \* files under static/temp: [path, data, closed]
    streams,      \* per /ws/record connection: [st, folder, clip_number, data,
                  \*   received (non-empty chunks, in order), written (files, in order),
                  \*   messages (binary messages received, empty ones included)]
    sent,         \* per connection: the JSON messages sent to the client, in order
    events,       \* file-created events queued for the watcher thread
    cur,          \* the event the watcher thread is dispatching, or NoEvent
    handled,      \* the events on_created has been called with, in order
    attempts,     \* upload_to_drive calls made by auto_upload_clip: [path, ok]
    watcherAlive, \* the watcher thread is still dispatching events
    uploads,      \* /api/upload requests served: [folder, meta, status]
    calls,        \* direct upload_to_drive calls: [path, name, before, skipped, result]
    seqResult,    \* last name returned by get_next_data_folder, or NoName
    seg,          \* segment_video run: [pc, D (ticks), L (s), num_clips, i,
                  \*   clip_paths, cmds (the ffmpeg runs), cache (clips_dir)]
    records,      \* local session records of the reconciliation loop
    syncLog,      \* the last reconciliation pass: [passes, updates, before, remote,
                  \*   complete]
    space,        \* DriveClient._hardcoded_space: [used, free, total] in hundredths
                  \*   of a GB, percentage in hundredths of a percent, and bytes,
                  \*   the byte sizes of the confirmed uploads summed
    thr,          \* per thread inside upload_to_drive: its position and locals
    play,         \* one /api/videos/<folder>/play request and its frame generator
    http,         \* responses of GET .../details and .../play: [route, folder,
                  \*   missing, status]
    listing       \* last result of get_clips_in_folder: [listed, names]

vars == <<drive, nextId, dirs, files, streams, sent, events, cur, handled, attempts,
          watcherAlive, uploads, calls, seqResult, seg, records, syncLog,
          space, thr, play, http, listing>>

----------------------------------------------------------------------------
(* Text helpers *)

DigitChars == <<"0", "1", "2", "3", "4", "5", "6", "7", "8", "9">>

IsDigit(c) == \E k \in 1..10 : DigitChars[k] = c

DigitVal(c) == (CHOOSE k \in 1..10 : DigitChars[k] = c) - 1

\* str(n) for a natural number n
RECURSIVE NatToStr(_)
NatToStr(n) ==
    IF n < 10 THEN <<DigitChars[n + 1]>>
    ELSE NatToStr(n \div 10) \o <<DigitChars[(n % 10) + 1]>>

\* str(n) for an integer n, as an f-string renders it
IntToStr(n) == IF n < 0 THEN <<"-">> \o NatToStr(0 - n) ELSE NatToStr(n)

\* int(s) for a string of decimal digits
RECURSIVE DigitsToNat(_)
DigitsToNat(s) ==
    IF s = <<>> THEN 0
    ELSE 10 * DigitsToNat(SubSeq(s, 1, Len(s) - 1)) + DigitVal(s[Len(s)])

StartsWith(s, p) == Len(s) >= Len(p) /\ SubSeq(s, 1, Len(p)) = p

SetMax(S) == CHOOSE m \in S : \A x \in S : x <= m

DataPrefix == <<"D", "a", "t", "a">>

----------------------------------------------------------------------------
(* Remote store (Google Drive through pydrive2) *)

Root == 0

\* content is a sequence of text blocks: the bytes of a clip, the lines of a
\* text file; a folder has none
NoContent == <<>>

\* drive.ListFile({'q': "title=.. and '<parent>' in parents and mimeType=folder"})
FoldersNamed(d, title, parent) ==
    {o \in d : o.isFolder /\ o.title = title /\ o.parent = parent}

\* drive.ListFile({'q': "title=.. and '<parent>' in parents and trashed=false"})
ObjectsNamed(d, title, parent) ==
    {o \in d : o.title = title /\ o.parent = parent}

\* drive.ListFile({'q': "'root' in parents and mimeType=folder and trashed=false"})
RootFolders(d) == {o \in d : o.isFolder /\ o.parent = Root}

NewObject(id, title, parent, isFolder, content) ==
    [id |-> id, title |-> title, parent |-> parent,
     isFolder |-> isFolder, content |-> content]

----------------------------------------------------------------------------
(* Folder Sequencer *)

\* re.match(r'Data(\d+)', title).group(1): the longest run of digits that
\* follows a leading "Data"; <<>> when the pattern does not match.  re.match
\* anchors the pattern at the start of the title only, not at its end.
MatchDataDigits(title) ==
    IF ~StartsWith(title, DataPrefix) THEN <<>>
    ELSE LET rest == SubSeq(title, 5, Len(title))
             run  == {k \in 0..Len(rest) : \A j \in 1..k : IsDigit(rest[j])}
         IN  SubSeq(rest, 1, SetMax(run))

\* The try-body of get_next_folder_name_from_drive, given the listing.
NextFolderNameFromListing(d) ==
    LET matched == {f \in RootFolders(d) :
                       /\ StartsWith(f.title, DataPrefix)
                       /\ MatchDataDigits(f.title) # <<>>}
        nums == {DigitsToNat(MatchDataDigits(f.title)) : f \in matched}
        next_num == IF nums # {} THEN SetMax(nums) + 1 ELSE 1
    IN  DataPrefix \o IntToStr(next_num)

\* Python's int(s) on the text after "Data": an optional sign, then digits,
\* single underscores allowed between digits.  ok = FALSE is ValueError.
PyInt(s) ==
    LET signed == Len(s) >= 1 /\ s[1] \in {"+", "-"}
        body == IF signed THEN SubSeq(s, 2, Len(s)) ELSE s
        wellFormed ==
            /\ Len(body) >= 1
            /\ \A j \in 1..Len(body) : IsDigit(body[j]) \/ body[j] = "_"
            /\ IsDigit(body[1]) /\ IsDigit(body[Len(body)])
            /\ \A j \in 1..(Len(body) - 1) : ~(body[j] = "_" /\ body[j + 1] = "_")
        digits == SelectSeq(body, IsDigit)
        mag == DigitsToNat(digits)
    IN  [ok |-> wellFormed,
         val |-> IF ~wellFormed THEN 0
                 ELSE IF signed /\ s[1] = "-" THEN 0 - mag ELSE mag]

GetNextFolderNameFromLocal(ds) ==
    LET existing_folders == {n \in ds : StartsWith(n, DataPrefix)}
        numbers == {PyInt(SubSeq(n, 5, Len(n))).val :
                       n \in {m \in existing_folders : PyInt(SubSeq(m, 5, Len(m))).ok}}
        next_num == IF numbers # {} THEN SetMax(numbers) + 1 ELSE 1
    IN  DataPrefix \o IntToStr(next_num)

\* listOk = FALSE: the remote listing raised, the except branch falls back
\* to the local staging directory.
GetNextFolderNameFromDrive(d, ds, listOk) ==
    IF listOk THEN NextFolderNameFromListing(d)
    ELSE GetNextFolderNameFromLocal(ds)

GetNextDataFolder(d, ds, listOk) == GetNextFolderNameFromDrive(d, ds, listOk)

----------------------------------------------------------------------------
(* Paths *)

Slash == "/"

ClipsDir == <<"C", "l", "i", "p", "s">>

PatientInfoDir == <<"p", "a", "t", "i", "e", "n", "t", "_", "i", "n", "f", "o">>

PatientTxt == <<"p", "a", "t", "i", "e", "n", "t", ".", "t", "x", "t">>

TempDirName == <<"t", "e", "m", "p">>

Mp4 == <<".", "m", "p", "4">>

Webm == <<".", "w", "e", "b", "m">>

\* f"{a}/{b}"
JoinPath(a, b) == a \o <<Slash>> \o b

\* folder_path.split('/')
RECURSIVE Split(_)
Split(s) ==
    LET cuts == {i \in 1..Len(s) : s[i] = Slash}
    IN  IF cuts = {} THEN <<s>>
        ELSE LET c == CHOOSE i \in cuts : \A j \in cuts : i <= j
             IN  <<SubSeq(s, 1, c - 1)>> \o Split(SubSeq(s, c + 1, Len(s)))

\* Path(name).suffix: from the last dot of the final component, a leading
\* dot and a trailing dot give no suffix.
Suffix(name) ==
    LET dots == {i \in 2..Len(name) : name[i] = "."}
    IN  IF dots = {} \/ SetMax(dots) = Len(name) THEN <<>>
        ELSE SubSeq(name, SetMax(dots), Len(name))

\* f"{n:03d}": zero-padded to a minimum width of three
Pad3(n) ==
    LET t == NatToStr(n)
    IN  IF Len(t) >= 3 THEN t ELSE [k \in 1..(3 - Len(t)) |-> "0"] \o t

\* f"Clip{clip_number:03d}.webm"
ClipFilename(clip_number) == <<"C", "l", "i", "p">> \o Pad3(clip_number) \o Webm

----------------------------------------------------------------------------
(* Remote Store Adapter: folder creation and upload *)

\* create_drive_folder from `parent` down the remaining path parts: the set
\* of outcomes [drive, nextId, id].  The listing's first match is taken; the
\* store fixes no order among equally named folders, so each is an outcome.
RECURSIVE CreateFrom(_, _, _, _)
CreateFrom(d, nid, parent, parts) ==
    IF parts = <<>> THEN {[drive |-> d, nextId |-> nid, id |-> parent]}
    ELSE LET folders == FoldersNamed(d, Head(parts), parent)
         IN  IF folders = {}
             THEN CreateFrom(d \cup {NewObject(nid, Head(parts), parent, TRUE, NoContent)},
                             nid + 1, nid, Tail(parts))
             ELSE UNION {CreateFrom(d, nid, f.id, Tail(parts)) : f \in folders}

CreateDriveFolder(d, nid, folder_path) == CreateFrom(d, nid, Root, Split(folder_path))

\* get_folder_id: the set of possible answers, {None} being {-1}
RECURSIVE FolderIdFrom(_, _, _)
FolderIdFrom(d, parent, parts) ==
    IF parts = <<>> THEN {parent}
    ELSE LET folders == FoldersNamed(d, Head(parts), parent)
         IN  IF folders = {} THEN {-1}
             ELSE UNION {FolderIdFrom(d, f.id, Tail(parts)) : f \in folders}

GetFolderId(d, folder_path) == FolderIdFrom(d, Root, Split(folder_path))

\* (mutant) upload_to_drive without the look-up of an existing object
UploadToDriveNoLookup(d, nid, drive_path, file_name, content) ==
    {[drive |-> r.drive \cup {NewObject(r.nextId, file_name, r.id, FALSE, content)},
      nextId |-> r.nextId + 1, id |-> r.nextId, transferred |-> TRUE]
        : r \in CreateDriveFolder(d, nid, drive_path)}

\* upload_to_drive when no remote call raises: the set of outcomes
\* [drive, nextId, id, transferred].
UploadToDrive(d, nid, drive_path, file_name, content) ==
    UNION {
        LET existing_files == ObjectsNamed(r.drive, file_name, r.id)
        IN  IF existing_files # {}
            THEN {[drive |-> r.drive, nextId |-> r.nextId, id |-> e.id,
                   transferred |-> FALSE] : e \in existing_files}
            ELSE {[drive |-> r.drive \cup
                               {NewObject(r.nextId, file_name, r.id, FALSE, content)},
                   nextId |-> r.nextId + 1, id |-> r.nextId,
                   transferred |-> TRUE]}
        : r \in CreateDriveFolder(d, nid, drive_path)}

\* upload_to_drive when a remote call raises: the folders of a prefix of the
\* path may already have been created, no file object is.
UploadToDriveRaises(d, nid, drive_path) ==
    LET parts == Split(drive_path)
    IN  UNION {{[drive |-> r.drive, nextId |-> r.nextId] :
                   r \in CreateFrom(d, nid, Root, SubSeq(parts, 1, j))}
               : j \in 0..Len(parts)}

----------------------------------------------------------------------------
(* Drive Space Estimate *)

\* 1024**3 / 4: sizes are compared against the GB in quarters, so that
\* 100 * size / 1024**3 = 25 * size / QuarterGB stays within the integers
QuarterGB == 268435456

\* total: 15.0 GB, in hundredths of a GB
TotalSpace == 1500

\* the bytes one element of a file's content stands for
BlockBytes == 5000000

\* os.path.getsize(file_path)
FileSize(content) == Len(content) * BlockBytes

\* round(100 * size_in_bytes / 1024**3): the hundredths of a GB that
\* round(used + size_in_gb, 2) adds to a `used` that is itself a multiple of
\* 0.01 (no size in bytes lies exactly half-way between two hundredths)
RoundedHundredths(size_in_bytes) == (25 * size_in_bytes + QuarterGB \div 2) \div QuarterGB

InitialSpace ==
    [used |-> 0, free |-> TotalSpace, total |-> TotalSpace, percentage |-> 0,
     bytes |-> 0]

\* round((used / total) * 100, 2) in hundredths of a percent, for `used`
\* the old multiple of 0.01 GB plus size_in_gb, not yet rounded, and total
\* 15 GB: round((20 * used + 125 * size / 2**26) / 3), the whole part of
\* 20 * used / 3 taken out first to stay within the integers
Percentage(used, size_in_bytes) ==
    LET den == 3 * (QuarterGB \div 4)
    IN  ((20 * used) \div 3)
        + ((((20 * used) % 3) * (QuarterGB \div 4) + 125 * size_in_bytes + den \div 2)
              \div den)

\* increment_drive_space: used += size_in_gb, free -= size_in_gb, the
\* percentage recalculated, then used and free rounded to two decimals
IncrementDriveSpace(sp, size_in_bytes) ==
    [used |-> sp.used + RoundedHundredths(size_in_bytes),
     free |-> sp.free - RoundedHundredths(size_in_bytes),
     total |-> sp.total,
     percentage |-> Percentage(sp.used, size_in_bytes),
     bytes |-> sp.bytes + size_in_bytes]

\* (mutant) the estimate is incremented whether or not a file was sent
SpaceAfterAnyCall(sp, r, content) == IncrementDriveSpace(sp, FileSize(content))

\* upload_to_drive's effect on the estimate: only a transferred file counts
SpaceAfter(sp, r, content) ==
    IF r.transferred THEN IncrementDriveSpace(sp, FileSize(content)) ELSE sp

----------------------------------------------------------------------------
(* Bounds and input sets *)

NStreams == 2

MaxChunks == 2

MaxDrops == 2

MaxUploads == 1

MaxEmpty == 1

Streams == 1..NStreams

\* the binary messages a client sends, as byte sequences
Chunks == {<<"A">>, <<"B">>}

EmptyChunk == <<>>

Metas == {"m1", "m2"}

DataName(n) == DataPrefix \o IntToStr(n)

\* folder_name values a client submits to /api/upload
FolderInputs == {DataName(n) : n \in 1..NStreams}

\* files some other program puts into a session's Clips directory
DroppedNames == {<<"x">> \o Mp4, <<"y">> \o Mp4}

\* info_content of /api/upload: the Name/Age/Gender/Condition lines (meta),
\* the Verification Status line and the Reason line (Timestamp stays empty
\* and Clip Duration fixed)
PatientText(meta, status, reason) == <<meta, status, reason>>

----------------------------------------------------------------------------
(* Local staging area: static/temp *)

Exists(ds, fs, path) == path \in ds \/ \E f \in fs : f.path = path

\* open(path, 'wb') ... close: the file replaces whatever was at the path
WriteFile(fs, path, data, closed) ==
    {f \in fs : f.path # path} \cup {[path |-> path, data |-> data, closed |-> closed]}

FileEvent(path) == [path |-> path, is_directory |-> FALSE]

DirEvent(path) == [path |-> path, is_directory |-> TRUE]

\* the created-events the observer queues when `paths` (in this order) are
\* created by mkdir(exist_ok=True) or open(.., 'w'): none for a path that
\* existed before
RECURSIVE CreatedEvents(_, _, _)
CreatedEvents(ds, fs, items) ==
    IF items = <<>> THEN <<>>
    ELSE (IF Exists(ds, fs, Head(items).path) THEN <<>> ELSE <<Head(items)>>)
         \o CreatedEvents(ds, fs, Tail(items))

\* top-level directory names: Path(local_base).iterdir() filtered by is_dir()
TopDirs(ds) == {p[1] : p \in {q \in ds : Len(q) = 1}}

\* the handler code runs on the event loop: between two awaits no other
\* handler runs.  A stream is between its open() and its close().
LoopBusy == \E s \in Streams : streams[s].st = "writing"

----------------------------------------------------------------------------
(* Recording Session Manager: /ws/record *)

Msg(status, folder_name, clip_number) ==
    [status |-> status, folder_name |-> folder_name, clip_number |-> clip_number]

IdleStream ==
    [st |-> "idle", folder |-> <<>>, clip_number |-> 0, data |-> <<>>,
     received |-> <<>>, written |-> <<>>, messages |-> 0]

\* create_recording_folder: [folder_name, dirs, events]
CreateRecordingFolder(d, ds, fs, listOk) ==
    LET folder_name == GetNextDataFolder(d, TopDirs(ds), listOk)
        folder_path == <<folder_name>>
        clips_path == <<folder_name, ClipsDir>>
    IN  [folder_name |-> folder_name,
         dirs |-> ds \cup {folder_path, clips_path},
         events |-> CreatedEvents(ds, fs, <<DirEvent(folder_path)>>)
                    \o CreatedEvents(ds, fs, <<DirEvent(clips_path)>>)]

\* accept, create_recording_folder, send recording_started, clip_number = 1.
\* sendOk = FALSE: the send raises (the client is gone), the handler ends.
\* Connections are numbered in the order they are accepted.
OpenStream(s, listOk, sendOk) ==
    /\ streams[s].st = "idle"
    /\ \A t \in Streams : t < s => streams[t].st # "idle"
    /\ ~LoopBusy
    /\ LET r == CreateRecordingFolder(drive, dirs, files, listOk)
       IN  /\ dirs' = r.dirs
           /\ events' = events \o r.events
           /\ streams' = [streams EXCEPT ![s] =
                  [@ EXCEPT !.st = IF sendOk THEN "open" ELSE "closed",
                            !.folder = r.folder_name,
                            !.clip_number = 1]]
           /\ sent' = [sent EXCEPT ![s] =
                  IF sendOk THEN Append(@, Msg("recording_started", r.folder_name, 0))
                  ELSE @]
    /\ UNCHANGED <<drive, nextId, files, cur, handled, attempts, watcherAlive,
                   uploads, calls, seqResult, seg, records, syncLog, space, thr, play, http, listing>>

\* the clip number a chunk is filed under
ClipNumberFor(st) == st.clip_number

\* data = await websocket.receive_bytes(); if data: open(clip_path, 'wb').
\* The file exists under its final name, empty, from here on.
ReceiveChunk(s, data) ==
    /\ streams[s].st = "open"
    /\ ~LoopBusy
    /\ streams[s].clip_number <= MaxChunks
    /\ IF data = EmptyChunk
       THEN /\ streams[s].messages - Len(streams[s].received) < MaxEmpty
            /\ streams' = [streams EXCEPT ![s] = [@ EXCEPT !.messages = @ + 1]]
            /\ UNCHANGED <<files, events>>
       ELSE LET clip_path == <<streams[s].folder, ClipsDir,
                               ClipFilename(ClipNumberFor(streams[s]))>>
            IN  /\ files' = WriteFile(files, clip_path, <<>>, FALSE)
                /\ events' = events \o CreatedEvents(dirs, files, <<FileEvent(clip_path)>>)
                /\ streams' = [streams EXCEPT ![s] =
                       [@ EXCEPT !.st = "writing", !.data = data,
                                 !.received = Append(@, data),
                                 !.messages = @ + 1]]
    /\ UNCHANGED <<drive, nextId, dirs, sent, cur, handled, attempts, watcherAlive,
                   uploads, calls, seqResult, seg, records, syncLog, space, thr, play, http, listing>>

\* (mutant) the counter is not advanced
NextClipNumberStuck(n) == n

\* clip_number after a chunk was written and its acknowledgment sent
NextClipNumber(n) == n + 1

\* (mutant) the acknowledgment carries the number of the next clip
AckNumberAhead(st) == st.clip_number + 1

\* the clip_number of the new_clip_saved message
AckNumber(st) == st.clip_number

\* f.write(data), close, send new_clip_saved, clip_number += 1.
\* sendOk = FALSE: the send raises, the loop breaks.
FinishChunk(s, sendOk) ==
    /\ streams[s].st = "writing"
    /\ LET st == streams[s]
           clip_filename == ClipFilename(ClipNumberFor(st))
           clip_path == <<st.folder, ClipsDir, clip_filename>>
           log == Append(st.written, [name |-> clip_filename, data |-> st.data])
       IN  /\ files' = WriteFile(files, clip_path, st.data, TRUE)
           /\ streams' = [streams EXCEPT ![s] =
                  IF sendOk
                  THEN [@ EXCEPT !.st = "open", !.data = <<>>, !.written = log,
                                 !.clip_number = NextClipNumber(@)]
                  ELSE [@ EXCEPT !.st = "closed", !.data = <<>>, !.written = log]]
           /\ sent' = [sent EXCEPT ![s] =
                  IF sendOk THEN Append(@, Msg("new_clip_saved", <<>>, AckNumber(st)))
                  ELSE @]
    /\ UNCHANGED <<drive, nextId, dirs, events, cur, handled, attempts, watcherAlive,
                   uploads, calls, seqResult, seg, records, syncLog, space, thr, play, http, listing>>

\* receive_bytes raises WebSocketDisconnect (or any other error): break.
\* Nothing is removed; active_recordings never holds the folder.
Disconnect(s) ==
    /\ streams[s].st = "open"
    /\ ~LoopBusy
    /\ streams' = [streams EXCEPT ![s] = [@ EXCEPT !.st = "closed"]]
    /\ UNCHANGED <<drive, nextId, dirs, files, sent, events, cur, handled, attempts,
                   watcherAlive, uploads, calls, seqResult, seg, records, syncLog, space, thr, play, http, listing>>

----------------------------------------------------------------------------
(* Auto-Upload Watcher: TempFolderHandler on the observer thread *)

FileName(path) == path[Len(path)]

\* file_path.parent.name, static/temp being the watched root
ParentName(path) == IF Len(path) >= 2 THEN path[Len(path) - 1] ELSE TempDirName

\* file_path.parent.parent.name
GrandParentName(path) ==
    IF Len(path) >= 3 THEN path[Len(path) - 2]
    ELSE IF Len(path) = 2 THEN TempDirName ELSE <<"s", "t", "a", "t", "i", "c">>

\* on_created's test: the event leads to auto_upload_clip
TriggersUpload(e) ==
    /\ ~e.is_directory
    /\ Suffix(FileName(e.path)) = Mp4
    /\ ParentName(e.path) = ClipsDir

\* (mutant) the except clause re-raises
AutoUploadClipReraises(uploadOk) == ~uploadOk

\* whether an exception raised inside auto_upload_clip leaves it: the
\* except clause logs it and does not re-raise
AutoUploadClipRaises(uploadOk) == FALSE

\* the observer thread takes the next queued event
WatcherTake ==
    /\ watcherAlive
    /\ cur = <<>>
    /\ events # <<>>
    /\ cur' = <<Head(events)>>
    /\ events' = Tail(events)
    /\ UNCHANGED <<drive, nextId, dirs, files, streams, sent, handled, attempts,
                   watcherAlive, uploads, calls, seqResult, seg, records, syncLog, space, thr, play, http, listing>>

\* on_created(event) and, for an .mp4 in a Clips directory, auto_upload_clip.
\* uploadOk = FALSE: upload_to_drive raises (a remote call fails, or the
\* file is gone).
WatcherRun(uploadOk) ==
    /\ watcherAlive
    /\ cur # <<>>
    /\ LET e == cur[1]
           folder_name == GrandParentName(e.path)
           clips_drive_path == JoinPath(folder_name, ClipsDir)
           clip_filename == FileName(e.path)
           onDisk == {f \in files : f.path = e.path}
       IN  /\ handled' = Append(handled, e)
           /\ cur' = <<>>
           /\ IF ~TriggersUpload(e)
              THEN /\ uploadOk
                   /\ UNCHANGED <<drive, nextId, attempts, watcherAlive, space>>
              ELSE /\ attempts' = Append(attempts, [path |-> e.path, ok |-> uploadOk])
                   /\ watcherAlive' = ~AutoUploadClipRaises(uploadOk)
                   /\ IF uploadOk
                      THEN /\ onDisk # {}
                           /\ \E f \in onDisk :
                              \E r \in UploadToDrive(drive, nextId, clips_drive_path,
                                                     clip_filename, f.data) :
                                  /\ drive' = r.drive
                                  /\ nextId' = r.nextId
                                  /\ space' = SpaceAfter(space, r, f.data)
                      ELSE \E r \in UploadToDriveRaises(drive, nextId, clips_drive_path) :
                              /\ drive' = r.drive
                              /\ nextId' = r.nextId
                              /\ space' = space
    /\ UNCHANGED <<dirs, files, streams, sent, events, uploads, calls, seqResult,
                   seg, records, syncLog, thr, play, http, listing>>

\* another program puts a finished .mp4 into a session's Clips directory
\* (the observer reports every file created under static/temp, whoever
\* creates it)
FileDropped(folder, name, data) ==
    /\ <<folder, ClipsDir>> \in dirs
    /\ Cardinality({f \in files : FileName(f.path) \in DroppedNames}) < MaxDrops
    /\ LET path == <<folder, ClipsDir, name>>
       IN  /\ ~Exists(dirs, files, path)
           /\ files' = WriteFile(files, path, data, TRUE)
           /\ events' = Append(events, FileEvent(path))
    /\ UNCHANGED <<drive, nextId, dirs, streams, sent, cur, handled, attempts,
                   watcherAlive, uploads, calls, seqResult, seg, records, syncLog, space, thr, play, http, listing>>

----------------------------------------------------------------------------
(* Metadata submission: POST /api/upload, without other_files *)

\* uploadOk = FALSE: upload_to_drive raises and the handler answers 500.
UploadData(folder_name, meta, uploadOk) ==
    /\ ~LoopBusy
    /\ IF ~Exists(dirs, files, <<folder_name>>)
       THEN /\ uploadOk
            /\ uploads' = Append(uploads, [folder |-> folder_name, meta |-> meta,
                                           status |-> 500, found |-> FALSE])
            /\ UNCHANGED <<drive, nextId, dirs, files, events, space>>
       ELSE LET info_path == <<folder_name, PatientTxt>>
                patient_info_dir == <<folder_name, PatientInfoDir>>
                info_content == PatientText(meta, "Pending", "")
            IN  /\ files' = WriteFile(files, info_path, info_content, TRUE)
                /\ dirs' = dirs \cup {patient_info_dir}
                /\ events' = events
                       \o CreatedEvents(dirs, files, <<FileEvent(info_path)>>)
                       \o CreatedEvents(dirs, files, <<DirEvent(patient_info_dir)>>)
                /\ IF uploadOk
                   THEN \E r \in UploadToDrive(drive, nextId, folder_name, PatientTxt,
                                                 info_content) :
                           /\ drive' = r.drive
                           /\ nextId' = r.nextId
                           /\ space' = SpaceAfter(space, r, info_content)
                           /\ uploads' = Append(uploads,
                                  [folder |-> folder_name, meta |-> meta,
                                   status |-> 200, found |-> TRUE])
                   ELSE \E r \in UploadToDriveRaises(drive, nextId, folder_name) :
                           /\ drive' = r.drive
                           /\ nextId' = r.nextId
                           /\ space' = space
                           /\ uploads' = Append(uploads,
                                  [folder |-> folder_name, meta |-> meta,
                                   status |-> 500, found |-> TRUE])
    /\ UNCHANGED <<streams, sent, cur, handled, attempts, watcherAlive, calls,
                   seqResult, seg, records, syncLog, thr, play, http, listing>>

----------------------------------------------------------------------------
(* The service: recording streams, watcher thread, metadata submissions *)

NoResult == [name |-> <<>>, via |-> "none"]

NoPass == [passes |-> 0, updates |-> 0, before |-> <<>>, remote |-> {}, complete |-> TRUE]

Threads == {"watcher", "handler"}

IdleThread ==
    [pc |-> "idle", parts |-> <<>>, parent_id |-> 0, file_name |-> <<>>,
     content |-> <<>>, result |-> 0]

IdleThreads == [t \in Threads |-> IdleThread]

NoListing == [listed |-> FALSE, names |-> <<>>]

NoPlay ==
    [pc |-> "idle", status |-> 0, clip_paths |-> <<>>, stitched |-> <<>>, tmp |-> {},
     cache |-> {}, apply_opencv |-> FALSE, pos |-> 0, yielded |-> <<>>,
     opened |-> 0, released |-> 0, ending |-> "none"]

SegIdle ==
    [pc |-> "idle", D |-> 0, L |-> 1, num_clips |-> 0, i |-> 0,
     clip_paths |-> <<>>, cmds |-> <<>>, cache |-> {}]

Init ==
    /\ drive = {}
    /\ nextId = 1
    /\ dirs = {}
    /\ files = {}
    /\ streams = [s \in Streams |-> IdleStream]
    /\ sent = [s \in Streams |-> <<>>]
    /\ events = <<>>
    /\ cur = <<>>
    /\ handled = <<>>
    /\ attempts = <<>>
    /\ watcherAlive = TRUE
    /\ uploads = <<>>
    /\ calls = <<>>
    /\ seqResult = NoResult
    /\ seg = SegIdle
    /\ records = <<>>
    /\ syncLog = NoPass
    /\ space = InitialSpace
    /\ thr = IdleThreads
    /\ play = NoPlay
    /\ http = <<>>
    /\ listing = NoListing

\* Recording streams and metadata submissions (the watcher thread is not
\* scheduled: its events stay queued).
RecordNext ==
    \/ \E s \in Streams, listOk \in BOOLEAN, sendOk \in BOOLEAN :
          OpenStream(s, listOk, sendOk)
    \/ \E s \in Streams, data \in Chunks \cup {EmptyChunk} : ReceiveChunk(s, data)
    \/ \E s \in Streams, sendOk \in BOOLEAN : FinishChunk(s, sendOk)
    \/ \E s \in Streams : Disconnect(s)
    \/ \E folder_name \in FolderInputs, meta \in Metas, uploadOk \in BOOLEAN :
          /\ Len(uploads) < MaxUploads
          /\ UploadData(folder_name, meta, uploadOk)

Spec == Init /\ [][RecordNext]_vars

MaxSubmits == 2

\* One recording stream and repeated metadata submissions.
SubmitNext ==
    \/ \E listOk \in BOOLEAN, sendOk \in BOOLEAN : OpenStream(1, listOk, sendOk)
    \/ \E data \in Chunks \cup {EmptyChunk} : ReceiveChunk(1, data)
    \/ \E sendOk \in BOOLEAN : FinishChunk(1, sendOk)
    \/ Disconnect(1)
    \/ \E folder_name \in FolderInputs, meta \in Metas, uploadOk \in BOOLEAN :
          /\ Len(uploads) < MaxSubmits
          /\ UploadData(folder_name, meta, uploadOk)

SpecSubmit == Init /\ [][SubmitNext]_vars

\* One recording stream, the watcher thread, and files dropped into staging.
WatcherNext ==
    \/ \E listOk \in BOOLEAN, sendOk \in BOOLEAN : OpenStream(1, listOk, sendOk)
    \/ \E data \in Chunks \cup {EmptyChunk} : ReceiveChunk(1, data)
    \/ \E sendOk \in BOOLEAN : FinishChunk(1, sendOk)
    \/ Disconnect(1)
    \/ WatcherTake
    \/ \E uploadOk \in BOOLEAN : WatcherRun(uploadOk)
    \/ \E folder \in FolderInputs, name \in DroppedNames :
          FileDropped(folder, name, <<"M">>)

SpecWatcher == Init /\ [][WatcherNext]_vars

\* The same with the observer thread scheduled: a queued event is taken
\* and a taken event is dispatched.  Finitely many events are created, so
\* the remote store fails finitely often in every behaviour.
SpecWatcherLive ==
    /\ Init
    /\ [][WatcherNext]_vars
    /\ WF_vars(WatcherTake)
    /\ WF_vars(\E uploadOk \in BOOLEAN : WatcherRun(uploadOk))

----------------------------------------------------------------------------
(* Folder Sequencer on its own: any remote root, any staging directory *)

\* folder names a remote root or the staging directory may hold
TitleUniverse ==
    << DataName(1), DataName(3), DataName(7),
       DataPrefix \o <<"1", "2", "x">>,
       DataPrefix,
       DataPrefix \o <<"_", "7">>,
       <<"M", "i", "s", "c">> >>

InitSequencer ==
    /\ \E R \in SUBSET (1..Len(TitleUniverse)) :
          drive = {NewObject(k, TitleUniverse[k], Root, TRUE, NoContent) : k \in R}
    /\ nextId = Len(TitleUniverse) + 1
    /\ \E Lc \in SUBSET (1..Len(TitleUniverse)) :
          dirs = {<<TitleUniverse[k]>> : k \in Lc}
    /\ files = {}
    /\ streams = [s \in Streams |-> IdleStream]
    /\ sent = [s \in Streams |-> <<>>]
    /\ events = <<>>
    /\ cur = <<>>
    /\ handled = <<>>
    /\ attempts = <<>>
    /\ watcherAlive = TRUE
    /\ uploads = <<>>
    /\ calls = <<>>
    /\ seqResult = NoResult
    /\ seg = SegIdle
    /\ records = <<>>
    /\ syncLog = NoPass
    /\ space = InitialSpace
    /\ thr = IdleThreads
    /\ play = NoPlay
    /\ http = <<>>
    /\ listing = NoListing

\* get_next_data_folder(); listOk = FALSE: the remote listing raises
NextDataFolder(listOk) ==
    /\ seqResult' = [name |-> GetNextDataFolder(drive, TopDirs(dirs), listOk),
                     via |-> IF listOk THEN "drive" ELSE "local"]
    /\ UNCHANGED <<drive, nextId, dirs, files, streams, sent, events, cur, handled,
                   attempts, watcherAlive, uploads, calls, seg, records, syncLog, space, thr, play, http, listing>>

SequencerNext == \E listOk \in BOOLEAN : NextDataFolder(listOk)

SpecSequencer == InitSequencer /\ [][SequencerNext]_vars

----------------------------------------------------------------------------
(* upload_to_drive called one call after the other *)

MaxCalls == 3

UploadPaths == {DataName(1), JoinPath(DataName(1), ClipsDir), JoinPath(DataName(2), ClipsDir)}

UploadNames == {PatientTxt, <<"x">> \o Mp4}

\* one upload_to_drive call; ok = FALSE: a remote call raises
CallUpload(drive_path, file_name, content, ok) ==
    /\ Len(calls) < MaxCalls
    /\ IF ok
       THEN \E r \in UploadToDrive(drive, nextId, drive_path, file_name, content) :
               /\ drive' = r.drive
               /\ nextId' = r.nextId
               /\ space' = SpaceAfter(space, r, content)
               /\ calls' = Append(calls,
                      [path |-> drive_path, name |-> file_name, content |-> content,
                       ok |-> TRUE, id |-> r.id, transferred |-> r.transferred])
       ELSE \E r \in UploadToDriveRaises(drive, nextId, drive_path) :
               /\ drive' = r.drive
               /\ nextId' = r.nextId
               /\ space' = space
               /\ calls' = Append(calls,
                      [path |-> drive_path, name |-> file_name, content |-> content,
                       ok |-> FALSE, id |-> -1, transferred |-> FALSE])
    /\ UNCHANGED <<dirs, files, streams, sent, events, cur, handled, attempts,
                   watcherAlive, uploads, seqResult, seg, records, syncLog, thr, play, http, listing>>

UploadNext ==
    \E drive_path \in UploadPaths, file_name \in UploadNames,
       content \in Chunks, ok \in BOOLEAN :
        CallUpload(drive_path, file_name, content, ok)

SpecUpload == Init /\ [][UploadNext]_vars

----------------------------------------------------------------------------
(* Session listing, verification updates and the reconciliation pass *)

MaxPasses == 2

MaxUpdates == 1

MaxSessions == 2

\* the value of a key of info_dict, with its default
InfoGet(info, k, default) == IF Len(info) >= k THEN info[k] ELSE default

\* one element of get_all_data's result, for root folder f and the
\* patient.txt object i found in it
DataEntry(d, f, i) ==
    [folder |-> f.title,
     info |-> i.content,
     clips_count |->
         LET ids == GetFolderId(d, JoinPath(f.title, ClipsDir)) \ {-1}
         IN  IF ids = {} THEN 0
             ELSE Cardinality({o \in d : o.parent = CHOOSE x \in ids : TRUE}),
     status |-> InfoGet(i.content, 2, "Pending"),
     reason |-> InfoGet(i.content, 3, "")]

\* the root folders get_all_data looks at
DataFolders(d) == {f \in RootFolders(d) : StartsWith(f.title, DataPrefix)}

\* (mutant) sessions without clips are left out as well
GetAllDataWithClipsOnly(d) ==
    LET SF == {f \in DataFolders(d) : ObjectsNamed(d, PatientTxt, f.id) # {}}
        picks == {g \in [SF -> d] : \A f \in SF : g[f] \in ObjectsNamed(d, PatientTxt, f.id)}
    IN  {{e \in {DataEntry(d, f, g[f]) : f \in SF} : e.clips_count > 0} : g \in picks}

\* get_all_data when no remote call raises: the possible results, each the
\* set of its elements.  A folder without patient.txt is left out
\* (`if info_file`); of several patient.txt the listing's first is read.
GetAllData(d) ==
    LET SF == {f \in DataFolders(d) : ObjectsNamed(d, PatientTxt, f.id) # {}}
        picks == {g \in [SF -> d] : \A f \in SF : g[f] \in ObjectsNamed(d, PatientTxt, f.id)}
    IN  {{DataEntry(d, f, g[f]) : f \in SF} : g \in picks}

\* update_verification_status: rewrites the Verification Status and Reason
\* lines of the session's remote patient.txt; raises when there is none
UpdateVerificationStatus(folder_name, status, reason) ==
    /\ syncLog.updates < MaxUpdates
    /\ \E folder_id \in GetFolderId(drive, folder_name) \ {-1} :
       \E info_file \in ObjectsNamed(drive, PatientTxt, folder_id) :
          drive' = (drive \ {info_file}) \cup
                   {[info_file EXCEPT !.content =
                        PatientText(InfoGet(info_file.content, 1, ""), status, reason)]}
    /\ syncLog' = [syncLog EXCEPT !.updates = @ + 1]
    /\ UNCHANGED <<nextId, dirs, files, streams, sent, events, cur, handled, attempts,
                   watcherAlive, uploads, calls, seqResult, seg, records,
                   space, thr, play, http, listing>>

\* all orderings of a finite set, as sequences
Orderings(S) ==
    {q \in [1..Cardinality(S) -> S] : \A a, b \in 1..Cardinality(S) : a # b => q[a] # q[b]}

\* One pass of the reconciliation loop: fetch the remote session list, and
\* for each remote session whose identity is not known locally append one
\* record made of its metadata; records already there are not touched.
\* fetchOk = FALSE: a remote call raised inside get_all_data, which logs it
\* and returns the elements gathered so far.
SyncPass(fetchOk) ==
    /\ syncLog.passes < MaxPasses
    /\ \E data \in GetAllData(drive) :
       \E fetched \in (IF fetchOk THEN {data} ELSE (SUBSET data) \ {data}) :
          LET known == {records[k].folder : k \in 1..Len(records)}
              missing == {e \in fetched : e.folder \notin known}
              names == {e.folder : e \in missing}
          IN  \E chosen \in {C \in SUBSET missing :
                                \A n \in names : Cardinality({e \in C : e.folder = n}) = 1} :
              \E order \in Orderings(chosen) :
                  /\ records' = records \o order
                  /\ syncLog' = [syncLog EXCEPT !.passes = @ + 1,
                                                !.before = records,
                                                !.remote = drive,
                                                !.complete = fetchOk]
    /\ UNCHANGED <<drive, nextId, dirs, files, streams, sent, events, cur, handled,
                   attempts, watcherAlive, uploads, calls, seqResult, seg,
                   space, thr, play, http, listing>>

\* the local record set a restarted service may already hold
StaleRecord ==
    [folder |-> DataName(1), info |-> PatientText("m1", "Approved", "ok"),
     clips_count |-> 0, status |-> "Approved", reason |-> "ok"]

InitSync ==
    /\ drive = {}
    /\ nextId = 1
    /\ dirs = {}
    /\ files = {}
    /\ streams = [s \in Streams |-> IdleStream]
    /\ sent = [s \in Streams |-> <<>>]
    /\ events = <<>>
    /\ cur = <<>>
    /\ handled = <<>>
    /\ attempts = <<>>
    /\ watcherAlive = TRUE
    /\ uploads = <<>>
    /\ calls = <<>>
    /\ seqResult = NoResult
    /\ seg = SegIdle
    /\ records \in {<<>>, <<StaleRecord>>}
    /\ syncLog = NoPass
    /\ space = InitialSpace
    /\ thr = IdleThreads
    /\ play = NoPlay
    /\ http = <<>>
    /\ listing = NoListing

SyncNext ==
    \/ \E n \in 1..MaxSessions, meta \in Metas :
          CallUpload(DataName(n), PatientTxt, PatientText(meta, "Pending", ""), TRUE)
    \/ \E n \in 1..MaxSessions :
          CallUpload(JoinPath(DataName(n), ClipsDir), <<"x">> \o Mp4, <<"M">>, TRUE)
    \/ \E n \in 1..MaxSessions, status \in {"Approved", "Rejected"} :
          UpdateVerificationStatus(DataName(n), status, "r")
    \/ \E fetchOk \in BOOLEAN : SyncPass(fetchOk)

SpecSync == InitSync /\ [][SyncNext]_vars

----------------------------------------------------------------------------
(* Playback: GET /api/videos/<folder>/play *)

MaxObjects == 5

\* the characters of file names, in code-point order
Ascii ==
    << ".", "0", "1", "2", "3", "4", "5", "6", "7", "8", "9",
       "A", "B", "C", "D", "E", "F", "G", "H", "I", "J", "K", "L", "M",
       "N", "O", "P", "Q", "R", "S", "T", "U", "V", "W", "X", "Y", "Z", "_",
       "a", "b", "c", "d", "e", "f", "g", "h", "i", "j", "k", "l", "m",
       "n", "o", "p", "q", "r", "s", "t", "u", "v", "w", "x", "y", "z" >>

CharCode(c) == CHOOSE i \in 1..Len(Ascii) : Ascii[i] = c

\* a < b for two strings, as sorted() compares the paths of one directory
RECURSIVE StrLess(_, _)
StrLess(a, b) ==
    IF a = <<>> THEN b # <<>>
    ELSE IF b = <<>> THEN FALSE
    ELSE IF Head(a) = Head(b) THEN StrLess(Tail(a), Tail(b))
    ELSE CharCode(Head(a)) < CharCode(Head(b))

\* sorted(S) for a set of strings
RECURSIVE Sorted(_)
Sorted(S) ==
    IF S = {} THEN <<>>
    ELSE LET least == CHOOSE x \in S : \A y \in S : x = y \/ StrLess(x, y)
         IN  <<least>> \o Sorted(S \ {least})

EndsWith(s, p) == Len(s) >= Len(p) /\ SubSeq(s, Len(s) - Len(p) + 1, Len(s)) = p

\* download_clips_for_folder when no remote call raises: the possible
\* contents of static/clips_cache/<folder_name> afterwards, or {None} as
\* {<<>>} when <folder_name>/Clips is not on the Drive.  A file that is
\* already in the cache is not fetched again.
DownloadClipsForFolder(d, cache, folder_name) ==
    LET ids == GetFolderId(d, JoinPath(folder_name, ClipsDir))
    IN  UNION {
            IF id = -1 THEN {<<>>}
            ELSE LET clips == {o \in d : o.parent = id}
                     have == {c.name : c \in cache}
                     titles == {o.title : o \in clips} \ have
                     picks == {g \in [titles -> clips] : \A t \in titles : g[t].title = t}
                 IN  {<<cache \cup {[name |-> t, data |-> g[t].content] : t \in titles}>>
                         : g \in picks}
            : id \in ids}

\* sorted(clips_dir.glob("*.mp4"))
GlobSortedMp4(cache) == Sorted({c.name : c \in {x \in cache : EndsWith(x.name, Mp4)}})

\* the frames of the clip at place i of the list, in decode order
RECURSIVE FramesOf(_, _, _)
FramesOf(i, data, k) ==
    IF k > Len(data) THEN <<>>
    ELSE <<[clip |-> i, k |-> k, px |-> data[k]]>> \o FramesOf(i, data, k + 1)

RECURSIVE ConcatFrom(_, _, _)
ConcatFrom(cache, clip_paths, i) ==
    IF i > Len(clip_paths) THEN <<>>
    ELSE LET c == CHOOSE x \in cache : x.name = clip_paths[i]
         IN  FramesOf(i, c.data, 1) \o ConcatFrom(cache, clip_paths, i + 1)

\* (mutant) the list file is written last clip first
StitchClipsReversed(cache, clip_paths) ==
    LET n == Len(clip_paths)
        rev == ConcatFrom(cache, [j \in 1..n |-> clip_paths[n + 1 - j]], 1)
    IN  [j \in 1..Len(rev) |-> [rev[j] EXCEPT !.clip = n + 1 - @]]

\* stitch_clips when ffmpeg succeeds: the stream of the output file, the
\* clips of the list file concatenated in the order they were written to it
StitchClips(cache, clip_paths) == ConcatFrom(cache, clip_paths, 1)

StitchedFile == "stitched"

\* the status the client gets when HTTPException(status_code=raised) is
\* raised inside the handler's try block: HTTPException is an Exception, so
\* the handler's own `except Exception` catches it and raises
\* HTTPException(status_code=500)
ExceptException(raised) == 500

Response(route, folder_name, missing, status) ==
    [route |-> route, folder |-> folder_name, missing |-> missing, status |-> status]

\* play_video_stream: download, glob, stitch, StreamingResponse(generator).
\* outcome: "ok"; "download_raises"; "stitch_fails" (ffmpeg exits non-zero,
\* leaving no output) or "stitch_partial" (leaving an output file).
PlayVideoStream(folder_name, apply_opencv, outcome) ==
    /\ play.pc = "idle"
    /\ IF outcome = "download_raises"
       THEN /\ play' = [play EXCEPT !.pc = "done", !.status = 500, !.ending = "refused"]
            /\ http' = Append(http, Response("play", folder_name, FALSE, 500))
       ELSE \E r \in DownloadClipsForFolder(drive, play.cache, folder_name) :
            IF r = <<>>
            THEN /\ outcome = "ok"
                 /\ play' = [play EXCEPT !.pc = "done",
                                         !.status = ExceptException(404),
                                         !.ending = "refused"]
                 /\ http' = Append(http, Response("play", folder_name, TRUE,
                                                  ExceptException(404)))
            ELSE LET clip_paths == GlobSortedMp4(r[1])
                 IN  IF clip_paths = <<>>
                     THEN /\ outcome = "ok"
                          /\ play' = [play EXCEPT !.pc = "done",
                                                  !.status = ExceptException(404),
                                                  !.cache = r[1], !.ending = "refused"]
                          /\ http' = Append(http, Response("play", folder_name, TRUE,
                                                           ExceptException(404)))
                     ELSE IF outcome = "ok"
                     THEN /\ play' = [play EXCEPT !.pc = "streaming", !.status = 200,
                                          !.cache = r[1],
                                          !.clip_paths = clip_paths,
                                          !.apply_opencv = apply_opencv,
                                          !.stitched = StitchClips(r[1], clip_paths),
                                          !.tmp = {StitchedFile}]
                          /\ http' = Append(http, Response("play", folder_name, FALSE, 200))
                     ELSE /\ play' = [play EXCEPT !.pc = "done", !.status = 500,
                                          !.cache = r[1],
                                          !.clip_paths = clip_paths,
                                          !.tmp = IF outcome = "stitch_partial"
                                                  THEN {StitchedFile} ELSE {},
                                          !.ending = "refused"]
                          /\ http' = Append(http, Response("play", folder_name, FALSE, 500))
    /\ UNCHANGED <<drive, nextId, dirs, files, streams, sent, events, cur, handled,
                   attempts, watcherAlive, uploads, calls, seqResult, seg, records,
                   syncLog, space, thr, listing>>

MaxDetails == 1

\* get_folder_details when no remote call raises: the possible results,
\* None being <<>> and {'info': ...} being <<content of patient.txt>>
GetFolderDetails(d, folder_name) ==
    UNION {
        IF id = -1 THEN {<<>>}
        ELSE LET info_files == ObjectsNamed(d, PatientTxt, id)
             IN  IF info_files = {} THEN {<<>>}
                 ELSE {<<i.content>> : i \in info_files}
        : id \in GetFolderId(d, folder_name)}

\* get_video_details; ok = FALSE: a remote call raises
GetVideoDetails(folder_name, ok) ==
    /\ Cardinality({j \in 1..Len(http) : http[j].route = "details"}) < MaxDetails
    /\ IF ~ok
       THEN http' = Append(http, Response("details", folder_name, FALSE, 500))
       ELSE \E details \in GetFolderDetails(drive, folder_name) :
               http' = Append(http,
                   IF details = <<>>
                   THEN Response("details", folder_name, TRUE, ExceptException(404))
                   ELSE Response("details", folder_name, FALSE, 200))
    /\ UNCHANGED <<drive, nextId, dirs, files, streams, sent, events, cur, handled,
                   attempts, watcherAlive, uploads, calls, seqResult, seg, records,
                   syncLog, space, thr, play, listing>>

\* (mutant) cap.release() only after the loop, without try/finally
ReleasesOnExhaustionOnly(ending) == IF ending = "exhausted" THEN 1 ELSE 0

\* how often cap.release() runs when the generator's loop is left: the
\* finally clause runs it once on break, on an exception and on
\* GeneratorExit alike
Releases(ending) == 1

\* leaving the try block of generate_video_stream
GenEnd(ending) ==
    [play EXCEPT !.pc = "done", !.ending = ending, !.released = @ + Releases(ending)]

\* the consumer asks for the first frame: cv2.VideoCapture(video_path)
GenStart(openOk) ==
    /\ play.pc = "streaming"
    /\ play' = IF openOk THEN [play EXCEPT !.pc = "loop", !.opened = @ + 1]
               ELSE [play EXCEPT !.pc = "done", !.ending = "not_opened"]
    /\ UNCHANGED <<drive, nextId, dirs, files, streams, sent, events, cur, handled,
                   attempts, watcherAlive, uploads, calls, seqResult, seg, records,
                   syncLog, space, thr, http, listing>>

\* one turn of the loop: cap.read(), the optional transform, cv2.imencode,
\* and the yield.  outcome: "frame" (encoded and yielded), "skip" (imencode
\* returns not ret: continue), "error" (an exception in read, cvtColor,
\* detectMultiScale or imencode).
GenLoop(outcome) ==
    /\ play.pc = "loop"
    /\ IF outcome = "error"
       THEN play' = GenEnd("error")
       ELSE IF play.pos >= Len(play.stitched)
       THEN /\ outcome = "frame"
            /\ play' = GenEnd("exhausted")
       ELSE LET frame == play.stitched[play.pos + 1]
            IN  IF outcome = "skip"
                THEN play' = [play EXCEPT !.pos = @ + 1]
                ELSE play' = [play EXCEPT !.pos = @ + 1, !.pc = "yielded",
                                          !.yielded = Append(@, frame)]
    /\ UNCHANGED <<drive, nextId, dirs, files, streams, sent, events, cur, handled,
                   attempts, watcherAlive, uploads, calls, seqResult, seg, records,
                   syncLog, space, thr, http, listing>>

\* the consumer asks for the next frame: time.sleep(0.01), back to the loop
GenResume ==
    /\ play.pc = "yielded"
    /\ play' = [play EXCEPT !.pc = "loop"]
    /\ UNCHANGED <<drive, nextId, dirs, files, streams, sent, events, cur, handled,
                   attempts, watcherAlive, uploads, calls, seqResult, seg, records,
                   syncLog, space, thr, http, listing>>

\* the consumer disconnects: the generator is closed.  At the yield
\* GeneratorExit is raised in it; a generator that never started runs no
\* code at all.
GenCancel ==
    /\ play.pc \in {"streaming", "yielded"}
    /\ play' = IF play.pc = "yielded" THEN GenEnd("cancelled")
               ELSE [play EXCEPT !.pc = "done", !.ending = "cancelled"]
    /\ UNCHANGED <<drive, nextId, dirs, files, streams, sent, events, cur, handled,
                   attempts, watcherAlive, uploads, calls, seqResult, seg, records,
                   syncLog, space, thr, http, listing>>

PlayClipNames == {<<"a">> \o Mp4, <<"b">> \o Mp4, <<"n">> \o Webm}

PlayContents == {<<"A">>, <<"A", "B">>}

\* a Drive holding session Data1 with some clips in Data1/Clips; the clips
\* cache may hold an older copy of one of them
InitPlay ==
    /\ \E present \in SUBSET PlayClipNames, withInfo \in BOOLEAN :
       \E content \in [present -> PlayContents] :
          LET sorted == Sorted(present)
          IN  drive = {NewObject(1, DataName(1), Root, TRUE, NoContent),
                       NewObject(2, ClipsDir, 1, TRUE, NoContent)}
                      \cup {NewObject(2 + j, sorted[j], 2, FALSE, content[sorted[j]])
                               : j \in 1..Len(sorted)}
                      \cup (IF withInfo
                            THEN {NewObject(3 + Cardinality(PlayClipNames), PatientTxt, 1,
                                            FALSE, PatientText("m1", "Pending", ""))}
                            ELSE {})
    /\ nextId = 4 + Cardinality(PlayClipNames)
    /\ dirs = {}
    /\ files = {}
    /\ streams = [s \in Streams |-> IdleStream]
    /\ sent = [s \in Streams |-> <<>>]
    /\ events = <<>>
    /\ cur = <<>>
    /\ handled = <<>>
    /\ attempts = <<>>
    /\ watcherAlive = TRUE
    /\ uploads = <<>>
    /\ calls = <<>>
    /\ seqResult = NoResult
    /\ seg = SegIdle
    /\ records = <<>>
    /\ syncLog = NoPass
    /\ space = InitialSpace
    /\ thr = IdleThreads
    /\ \E stale \in BOOLEAN :
          play = [NoPlay EXCEPT !.cache =
                     IF stale THEN {[name |-> <<"b">> \o Mp4, data |-> <<"Z">>]} ELSE {}]
    /\ http = <<>>
    /\ listing = NoListing

PlayNext ==
    \/ \E folder_name \in {DataName(1), DataName(2)}, apply_opencv \in BOOLEAN,
          outcome \in {"ok", "download_raises", "stitch_fails", "stitch_partial"} :
          PlayVideoStream(folder_name, apply_opencv, outcome)
    \/ \E folder_name \in {DataName(1), DataName(2)}, ok \in BOOLEAN :
          GetVideoDetails(folder_name, ok)
    \/ GenCancel
    \/ \E openOk \in BOOLEAN : GenStart(openOk)
    \/ \E outcome \in {"frame", "skip", "error"} : GenLoop(outcome)
    \/ GenResume

SpecPlay == InitPlay /\ [][PlayNext]_vars

----------------------------------------------------------------------------
(* upload_to_drive on two threads: the observer thread (auto_upload_clip)  *)
(* and the event loop (upload_data).  Every remote call is a step.         *)

ThrUnchanged ==
    UNCHANGED <<dirs, files, streams, sent, events, cur, handled, attempts,
                watcherAlive, uploads, calls, seqResult, seg, records, syncLog, play, http, listing>>

\* upload_to_drive is entered: create_drive_folder starts at 'root'
ThrBegin(t, drive_path, file_name, content) ==
    /\ thr[t].pc = "idle"
    /\ thr' = [thr EXCEPT ![t] =
           [IdleThread EXCEPT !.pc = "list", !.parts = Split(drive_path),
                              !.parent_id = Root, !.file_name = file_name,
                              !.content = content]]
    /\ UNCHANGED <<drive, nextId, space>>
    /\ ThrUnchanged

\* create_drive_folder: the ListFile query for the next path part; a match
\* is entered (folders[0]), no match leads to CreateFile.  After the last
\* part, upload_to_drive goes on to its look-up of the file.
ThrListFolders(t) ==
    /\ thr[t].pc = "list"
    /\ IF thr[t].parts = <<>>
       THEN thr' = [thr EXCEPT ![t].pc = "list_files"]
       ELSE LET folders == FoldersNamed(drive, Head(thr[t].parts), thr[t].parent_id)
            IN  IF folders = {}
                THEN thr' = [thr EXCEPT ![t].pc = "create"]
                ELSE \E f \in folders :
                        thr' = [thr EXCEPT ![t].parent_id = f.id,
                                           ![t].parts = Tail(@)]
    /\ UNCHANGED <<drive, nextId, space>>
    /\ ThrUnchanged

\* create_drive_folder: CreateFile(folder_metadata).Upload()
ThrCreateFolder(t) ==
    /\ thr[t].pc = "create"
    /\ drive' = drive \cup
                {NewObject(nextId, Head(thr[t].parts), thr[t].parent_id, TRUE, NoContent)}
    /\ nextId' = nextId + 1
    /\ thr' = [thr EXCEPT ![t].pc = "list", ![t].parent_id = nextId,
                          ![t].parts = Tail(@)]
    /\ UNCHANGED space
    /\ ThrUnchanged

\* upload_to_drive: the ListFile query for an existing file of that name
ThrListFiles(t) ==
    /\ thr[t].pc = "list_files"
    /\ LET existing_files == ObjectsNamed(drive, thr[t].file_name, thr[t].parent_id)
       IN  IF existing_files = {}
           THEN thr' = [thr EXCEPT ![t].pc = "upload"]
           ELSE \E e \in existing_files :
                   thr' = [thr EXCEPT ![t].pc = "done", ![t].result = e.id]
    /\ UNCHANGED <<drive, nextId, space>>
    /\ ThrUnchanged

\* upload_to_drive: CreateFile, SetContentFile, Upload, increment_drive_space
ThrUploadFile(t) ==
    /\ thr[t].pc = "upload"
    /\ drive' = drive \cup
                {NewObject(nextId, thr[t].file_name, thr[t].parent_id, FALSE,
                           thr[t].content)}
    /\ nextId' = nextId + 1
    /\ space' = IncrementDriveSpace(space, FileSize(thr[t].content))
    /\ thr' = [thr EXCEPT ![t].pc = "done", ![t].result = nextId]
    /\ ThrUnchanged

\* a remote call raises: upload_to_drive logs and re-raises
ThrRaise(t) ==
    /\ thr[t].pc \in {"list", "create", "list_files", "upload"}
    /\ thr' = [thr EXCEPT ![t].pc = "done", ![t].result = -1]
    /\ UNCHANGED <<drive, nextId, space>>
    /\ ThrUnchanged

\* the call has returned; the thread is free for its next upload
ThrReturn(t) ==
    /\ thr[t].pc = "done"
    /\ nextId <= MaxObjects
    /\ thr' = [thr EXCEPT ![t] = IdleThread]
    /\ UNCHANGED <<drive, nextId, space>>
    /\ ThrUnchanged

RaceNext ==
    \/ \E name \in DroppedNames :
          ThrBegin("watcher", JoinPath(DataName(1), ClipsDir), name, <<"M">>)
    \/ \E meta \in Metas :
          ThrBegin("handler", DataName(1), PatientTxt, PatientText(meta, "Pending", ""))
    \/ \E t \in Threads : ThrListFolders(t)
    \/ \E t \in Threads : ThrCreateFolder(t)
    \/ \E t \in Threads : ThrListFiles(t)
    \/ \E t \in Threads : ThrUploadFile(t)
    \/ \E t \in Threads : ThrRaise(t)
    \/ \E t \in Threads : ThrReturn(t)

SpecRace == Init /\ [][RaceNext]_vars

----------------------------------------------------------------------------
(* Clip listing: get_clips_in_folder *)

ClipPrefix == <<"C", "l", "i", "p">>

\* get_clips_in_folder when no remote call raises: the possible results,
\* the titles starting with 'Clip' of the objects of <folder_name>/Clips
\* after list.sort(); [] when the folder is not there
GetClipsInFolder(d, folder_name) ==
    {IF id = -1 THEN <<>>
     ELSE Sorted({o.title : o \in {x \in d : x.parent = id /\ StartsWith(x.title, ClipPrefix)}})
        : id \in GetFolderId(d, JoinPath(folder_name, ClipsDir))}

\* one call; ok = FALSE: a remote call raises, the error is logged and []
\* returned
ListClips(folder_name, ok) ==
    /\ \E names \in (IF ok THEN GetClipsInFolder(drive, folder_name) ELSE {<<>>}) :
          listing' = [listed |-> TRUE, names |-> names]
    /\ UNCHANGED <<drive, nextId, dirs, files, streams, sent, events, cur, handled,
                   attempts, watcherAlive, uploads, calls, seqResult, seg, records,
                   syncLog, space, thr, play, http>>

\* sequence numbers a long recording session reaches
ClipNumbers == {1, 2, 10, 99, 100, 999, 1000}

\* a Drive holding session Data1 whose Clips folder holds the clips of some
\* sequence numbers, named as record_websocket names them
InitSort ==
    /\ \E present \in SUBSET ClipNumbers :
          drive = {NewObject(1, DataName(1), Root, TRUE, NoContent),
                   NewObject(2, ClipsDir, 1, TRUE, NoContent)}
                  \cup {NewObject(2 + n, ClipFilename(n), 2, FALSE, <<"A">>) : n \in present}
    /\ nextId = 3 + SetMax(ClipNumbers)
    /\ dirs = {}
    /\ files = {}
    /\ streams = [s \in Streams |-> IdleStream]
    /\ sent = [s \in Streams |-> <<>>]
    /\ events = <<>>
    /\ cur = <<>>
    /\ handled = <<>>
    /\ attempts = <<>>
    /\ watcherAlive = TRUE
    /\ uploads = <<>>
    /\ calls = <<>>
    /\ seqResult = NoResult
    /\ seg = SegIdle
    /\ records = <<>>
    /\ syncLog = NoPass
    /\ space = InitialSpace
    /\ thr = IdleThreads
    /\ play = NoPlay
    /\ http = <<>>
    /\ listing = NoListing

SortNext ==
    \E folder_name \in {DataName(1), DataName(2)}, ok \in BOOLEAN :
        ListClips(folder_name, ok)

SpecSort == InitSort /\ [][SortNext]_vars

----------------------------------------------------------------------------
(* Properties *)

\* the N of a session name Data<N>
SessionNumber(name) == DigitsToNat(SubSeq(name, 5, Len(name)))

\* C1: of two recording sessions opened one after the other, the second
\* being opened after the first was sent recording_started, the later one
\* is told a name with the strictly larger session number (so they never
\* share a name or a staging directory).
C1_NamesUniqueIncreasing ==
    \A s, t \in Streams :
        (/\ s < t
         /\ sent[s] # <<>>
         /\ sent[t] # <<>>)
        => SessionNumber(streams[t].folder) > SessionNumber(streams[s].folder)

\* the three-digit clip name of sequence number i, spelled out
IsClipName(name, i) ==
    /\ Len(name) = 12
    /\ SubSeq(name, 1, 4) = <<"C", "l", "i", "p">>
    /\ \A j \in 5..7 : IsDigit(name[j])
    /\ DigitsToNat(SubSeq(name, 5, 7)) = i
    /\ SubSeq(name, 8, 12) = Webm

\* the clip numbers acknowledged to the client of stream s, in order
Acked(s) ==
    LET acks == SelectSeq(sent[s], LAMBDA m : m.status = "new_clip_saved")
    IN  [j \in 1..Len(acks) |-> acks[j].clip_number]

SharesFolder(s) ==
    \E t \in Streams : t # s /\ streams[t].st # "idle"
                       /\ streams[t].folder = streams[s].folder

RemoteObjects(d, path, name) ==
    {o \in d : o.title = name /\ o.parent \in GetFolderId(d, path)}

\* the first successful call with the path and name of call j
FirstUpload(j) ==
    CHOOSE i \in 1..j :
        /\ calls[i].ok /\ calls[i].path = calls[j].path /\ calls[i].name = calls[j].name
        /\ \A h \in 1..(i - 1) :
              ~(calls[h].ok /\ calls[h].path = calls[j].path /\ calls[h].name = calls[j].name)

\* C3: after one successful upload of name n into path p, every later
\* upload_to_drive(p, n) that returns gives the identity of the object the
\* first call created and transfers nothing, and p holds exactly one object
\* named n, with the content of the first upload.
C3_UploadIdempotent ==
    \A j \in 1..Len(calls) :
        calls[j].ok =>
            LET i == FirstUpload(j)
            IN  /\ calls[i].transferred
                /\ i < j => (calls[j].id = calls[i].id /\ ~calls[j].transferred)
                /\ RemoteObjects(drive, calls[j].path, calls[j].name) =
                      {NewObject(calls[i].id, calls[j].name,
                                 CHOOSE x \in GetFolderId(drive, calls[j].path) : TRUE,
                                 FALSE, calls[i].content)}

\* C3 witness: the same name was uploaded twice into the same path, the
\* second time with other content, and both calls returned.
C3_Witness ==
    \E i, j \in 1..Len(calls) :
        /\ i < j
        /\ calls[i].ok /\ calls[j].ok
        /\ calls[i].path = calls[j].path /\ calls[i].name = calls[j].name
        /\ calls[i].content # calls[j].content

\* a title that is exactly Data followed by one or more digits
IsDataN(title) ==
    /\ StartsWith(title, DataPrefix)
    /\ Len(title) > 4
    /\ \A j \in 5..Len(title) : IsDigit(title[j])

\* C4: when the remote listing succeeds the sequencer returns Data<max+1>,
\* max the largest N over the remote top-level folders named Data<N>, and
\* Data1 when there is no such folder.
C4_NextIsMaxPlusOne ==
    seqResult.via = "drive" =>
        LET ns == {SessionNumber(f.title) : f \in {g \in RootFolders(drive) : IsDataN(g.title)}}
        IN  seqResult.name = DataName(IF ns = {} THEN 1 ELSE SetMax(ns) + 1)

----------------------------------------------------------------------------
(* Segmenter: segment_video(video_path, clip_duration) *)

\* durations are counted in ticks of 1/TicksPerSecond s, clip_duration in s
TicksPerSecond == 2

MaxDuration == 40

ClipDurations == {1, 5, 6, 7, 15}

\* the remainder above which a last, shorter clip is cut (seconds)
MinTail == 5

VideoName == <<"v">>

\* (mutant) a remainder of exactly 5 s gets a clip too
NumClipsAtLeastTail(D, L) ==
    (D \div (L * TicksPerSecond))
    + (IF D % (L * TicksPerSecond) >= MinTail * TicksPerSecond THEN 1 ELSE 0)

\* int(total_duration // clip_duration) + (1 if total_duration % clip_duration > 5 else 0)
NumClips(D, L) ==
    (D \div (L * TicksPerSecond))
    + (IF D % (L * TicksPerSecond) > MinTail * TicksPerSecond THEN 1 ELSE 0)

\* f"{video_name}_clip_{i+1:03d}.mp4"
SegClipFilename(i) == VideoName \o <<"_", "c", "l", "i", "p", "_">> \o Pad3(i + 1) \o Mp4

InitSegment ==
    /\ drive = {}
    /\ nextId = 1
    /\ dirs = {}
    /\ files = {}
    /\ streams = [s \in Streams |-> IdleStream]
    /\ sent = [s \in Streams |-> <<>>]
    /\ events = <<>>
    /\ cur = <<>>
    /\ handled = <<>>
    /\ attempts = <<>>
    /\ watcherAlive = TRUE
    /\ uploads = <<>>
    /\ calls = <<>>
    /\ seqResult = NoResult
    /\ \E D \in 0..(MaxDuration * TicksPerSecond), L \in ClipDurations :
          seg = [SegIdle EXCEPT !.D = D, !.L = L]
    /\ records = <<>>
    /\ syncLog = NoPass
    /\ space = InitialSpace
    /\ thr = IdleThreads
    /\ play = NoPlay
    /\ http = <<>>
    /\ listing = NoListing

SegUnchanged ==
    UNCHANGED <<drive, nextId, dirs, files, streams, sent, events, cur, handled,
                attempts, watcherAlive, uploads, calls, seqResult, records, syncLog,
                space, thr, play, http, listing>>

\* ffprobe, float(stdout), num_clips; probeOk = FALSE: ffprobe fails
SegProbe(probeOk) ==
    /\ seg.pc = "idle"
    /\ seg' = IF probeOk
              THEN [seg EXCEPT !.pc = "loop", !.num_clips = NumClips(seg.D, seg.L)]
              ELSE [seg EXCEPT !.pc = "failed"]
    /\ SegUnchanged

\* (mutant) the clips already produced are removed when a run fails
CacheRolledBack(cache, clip_path, partial) == {}

\* clips_dir after ffmpeg failed on clip_path: the except clauses log and
\* raise, they remove nothing; ffmpeg may or may not have left an output
\* file behind
CacheAfterFailure(cache, clip_path, partial) ==
    IF partial THEN cache \cup {clip_path} ELSE cache

\* one pass of the loop: ffmpeg -ss start_time -t clip_duration -c copy.
\* The clip written lasts to the end of the source at most.
\* extractOk = FALSE: ffmpeg exits non-zero, the run raises.
SegExtract(extractOk) ==
    /\ seg.pc = "loop"
    /\ seg.i < seg.num_clips
    /\ LET start_time == seg.i * seg.L
           clip_path == SegClipFilename(seg.i)
           left == seg.D - start_time * TicksPerSecond
           cut == IF left < seg.L * TicksPerSecond THEN left ELSE seg.L * TicksPerSecond
       IN  IF extractOk
           THEN seg' = [seg EXCEPT !.i = @ + 1,
                                   !.clip_paths = Append(@, clip_path),
                                   !.cmds = Append(@, [ss |-> start_time, t |-> seg.L,
                                                       out |-> clip_path, len |-> cut]),
                                   !.cache = @ \cup {clip_path}]
           ELSE \E partial \in BOOLEAN :
                   seg' = [seg EXCEPT !.pc = "failed",
                                      !.cache = CacheAfterFailure(@, clip_path, partial)]
    /\ SegUnchanged

\* return clip_paths
SegReturn ==
    /\ seg.pc = "loop"
    /\ seg.i = seg.num_clips
    /\ seg' = [seg EXCEPT !.pc = "done"]
    /\ SegUnchanged

SegmentNext ==
    \/ \E probeOk \in BOOLEAN : SegProbe(probeOk)
    \/ \E extractOk \in BOOLEAN : SegExtract(extractOk)
    \/ SegReturn

SpecSegment == InitSegment /\ [][SegmentNext]_vars

\* floor(D/L) for D in ticks and L in seconds: the q with q*L <= D < (q+1)*L
FullClips(D, L) ==
    CHOOSE q \in 0..D :
        q * L * TicksPerSecond <= D /\ D < (q + 1) * L * TicksPerSecond

\* C5: a successful segment_video run returns floor(D/L) clip paths, plus
\* one when the remainder D - floor(D/L)*L is above 5 s; they are in index
\* order, clip i (0-based) cut at start offset i*L with requested length L;
\* every clip lasts L, except that a remainder above 5 s gives one last,
\* shorter clip, and a remainder of at most 5 s gives none.
C5_ClipCount ==
    seg.pc = "done" =>
        LET q == FullClips(seg.D, seg.L)
            rem == seg.D - q * seg.L * TicksPerSecond
            n == Len(seg.clip_paths)
        IN  /\ n = IF rem > 5 * TicksPerSecond THEN q + 1 ELSE q
            /\ Len(seg.cmds) = n
            /\ \A k \in 1..n :
                  /\ seg.cmds[k].ss = (k - 1) * seg.L
                  /\ seg.cmds[k].t = seg.L
                  /\ seg.cmds[k].out = seg.clip_paths[k]
                  /\ seg.clip_paths[k] =
                        VideoName \o <<"_", "c", "l", "i", "p", "_">>
                        \o Pad3(k) \o Mp4
                  /\ seg.cmds[k].len = IF k <= q THEN seg.L * TicksPerSecond ELSE rem

\* C5 witness: a run that returned full clips and a last shorter one
C5_Witness ==
    /\ seg.pc = "done"
    /\ Len(seg.cmds) >= 3
    /\ seg.cmds[Len(seg.cmds)].len < seg.L * TicksPerSecond

\* the events on_created was called with that name a file in a Clips directory
ClipsFileEvent(e) == ~e.is_directory /\ ParentName(e.path) = ClipsDir

\* C6: every file-created event for a file whose parent directory is named
\* Clips (the clips a recording stream writes included) leads to an upload
\* of that file, under its own name, to <session>/Clips, <session> being
\* the grandparent directory.
C6_EveryClipsFileUploaded ==
    \A i \in 1..Len(handled) :
        ClipsFileEvent(handled[i]) =>
            \E j \in 1..Len(attempts) :
                /\ attempts[j].path = handled[i].path
                /\ attempts[j].ok =>
                      RemoteObjects(drive,
                                    JoinPath(GrandParentName(handled[i].path), ClipsDir),
                                    FileName(handled[i].path)) # {}

\* C7: the watcher is never handed a file-created event for a file in a
\* Clips directory that its writer has not yet written and closed.
C7_NoPartialClipObserved ==
    cur # <<>> =>
        (ClipsFileEvent(cur[1]) =>
            \A f \in files : f.path = cur[1].path => f.closed)

\* the paths of the handled events that lead to an upload, in order
RECURSIVE UploadPathsOf(_)
UploadPathsOf(evs) ==
    IF evs = <<>> THEN <<>>
    ELSE (IF TriggersUpload(Head(evs)) THEN <<Head(evs).path>> ELSE <<>>)
         \o UploadPathsOf(Tail(evs))

\* C8: a failed upload never stops the watcher: it keeps dispatching, and
\* every handled event that calls for an upload, those after a failed
\* upload included, got an upload attempt of its own, in order.
C8_WatcherSurvivesFailedUpload ==
    /\ watcherAlive
    /\ UploadPathsOf(handled) = [j \in 1..Len(attempts) |-> attempts[j].path]
    /\ (cur # <<>> \/ events # <<>>) => ENABLED (WatcherTake \/ \E ok \in BOOLEAN : WatcherRun(ok))

\* C8 witness: an upload failed and a later event got its upload attempt,
\* which succeeded.
C8_Witness ==
    \E i, j \in 1..Len(attempts) :
        /\ i < j
        /\ ~attempts[i].ok
        /\ attempts[j].ok
        /\ attempts[i].path # attempts[j].path

\* the clip files in the staging Clips directory of a session
StagedClips(folder) ==
    {f \in files : Len(f.path) = 3 /\ f.path[1] = folder /\ f.path[2] = ClipsDir}

\* C9: once the client of a stream has disconnected (or the transport has
\* failed) after k chunks were saved, exactly k clip files are in the
\* session's staging Clips directory, and the session's staging folder
\* exists, so that /api/upload naming it is not turned away.
C9_DisconnectKeepsExactlyKClips ==
    \A s \in Streams :
        (streams[s].st = "closed" /\ sent[s] # <<>>) =>
            /\ Cardinality(StagedClips(streams[s].folder)) = Len(streams[s].written)
            /\ Exists(dirs, files, <<streams[s].folder>>)

\* the remote sessions of a remote store: the names of the Data folders of
\* its root that hold a metadata blob
RemoteSessions(d) ==
    {f.title : f \in {g \in RootFolders(d) :
                         /\ StartsWith(g.title, DataPrefix)
                         /\ \E o \in d : o.parent = g.id /\ o.title = PatientTxt}}

\* the metadata blob(s) of remote session `name`
RemoteInfo(d, name) ==
    {o.content : o \in {x \in d : /\ x.title = PatientTxt
                                  /\ \E g \in RootFolders(d) :
                                        g.title = name /\ x.parent = g.id}}

C11_FramesInClipOrder ==
    \A a, b \in 1..Len(play.yielded) :
        a < b =>
            \/ play.yielded[a].clip < play.yielded[b].clip
            \/ /\ play.yielded[a].clip = play.yielded[b].clip
               /\ play.yielded[a].k < play.yielded[b].k

\* C11 witness: frames of two clips were yielded after a frame was skipped
C11_Witness ==
    /\ \E a, b \in 1..Len(play.yielded) : play.yielded[a].clip # play.yielded[b].clip
    /\ Len(play.yielded) < play.pos

\* C12: once a playback that was started (the stitched file was made and
\* the frame stream handed to the consumer) has ended, by the consumer
\* disconnecting or in any other way, no stitched file of it is left on
\* disk.
C12_StitchedFileDeleted ==
    (play.pc = "done" /\ play.status = 200) => StitchedFile \notin play.tmp

\* C13: a decode session that was opened is released exactly once when the
\* frame sequence has ended, and never more often than it was opened.
C13_ReleasedExactlyOnce ==
    /\ play.released <= play.opened
    /\ play.pc = "done" => play.released = play.opened

\* C13 witness: the consumer cancelled an opened decode session before the
\* source was exhausted
C13_Witness ==
    /\ play.pc = "done"
    /\ play.ending = "cancelled"
    /\ play.opened = 1
    /\ play.pos < Len(play.stitched)

\* |used - sum of the confirmed uploads' sizes| <= 0.01 GB, both sides
\* multiplied by 100 * 1024**3 / 4
SpaceWithinOneStep(sp) ==
    /\ sp.used * QuarterGB - 25 * sp.bytes <= QuarterGB
    /\ 25 * sp.bytes - sp.used * QuarterGB <= QuarterGB

\* C14: `used` never decreases, and after any sequence of confirmed uploads
\* it equals the sum of their byte sizes, in GB, to within 0.01 GB.
C14_UsedAccumulatesUploads ==
    /\ [](SpaceWithinOneStep(space))
    /\ [][space'.used >= space.used]_vars

\* C15: whatever the interleaving of the uploads of the watcher thread and
\* of the request handler, no remote parent holds two children of the same
\* name.
C15_NoDuplicateRemoteNames ==
    \A a, b \in drive : (a.parent = b.parent /\ a.title = b.title) => a.id = b.id

\* the clip numbers acknowledged to the client of stream s
AckedNumbers(s) ==
    {sent[s][j].clip_number :
        j \in {k \in 1..Len(sent[s]) : sent[s][k].status = "new_clip_saved"}}

\* C16: every binary message a stream has received, an empty one included,
\* was written as a clip file of its own and acknowledged with that clip's
\* number: a stream waiting for its next message has written and
\* acknowledged as many clips as it received messages.
C16_EveryMessageSavedAndAcked ==
    \A s \in Streams :
        streams[s].st = "open" =>
            /\ Len(streams[s].written) = streams[s].messages
            /\ AckedNumbers(s) = 1..streams[s].messages

\* the clip file n of stream s is on disk, closed, holding the n-th chunk
ClipComplete(s, n) ==
    /\ n \in 1..Len(streams[s].written)
    /\ \E f \in files :
          /\ f.path = <<streams[s].folder, ClipsDir, ClipFilename(n)>>
          /\ f.closed
          /\ f.data = streams[s].received[n]

\* C17: the first message to the client is recording_started with the
\* session name, and no chunk is read before it was sent; an
\* acknowledgment with clip_number n is sent only when clip file n is
\* completely written, and chunk n+1 is read only after it.
C17_MessageOrdering ==
    \A s \in Streams :
        /\ streams[s].messages > 0 => sent[s] # <<>>
        /\ \A j \in 1..Len(sent[s]) :
              IF j = 1
              THEN sent[s][j] = Msg("recording_started", streams[s].folder, 0)
              ELSE /\ sent[s][j].status = "new_clip_saved"
                   /\ ClipComplete(s, sent[s][j].clip_number)
        /\ \A n \in 1..(Len(streams[s].received) - 1) : n \in AckedNumbers(s)

\* C17 witness: a second chunk is being written after the first clip was
\* acknowledged
C17_Witness ==
    \E s \in Streams :
        /\ streams[s].st = "writing"
        /\ Len(streams[s].received) = 2
        /\ AckedNumbers(s) = {1}

\* C18: a clip file a recording session has written stays on disk with the
\* bytes that session wrote, whatever any session does later.
C18_ClipNeverOverwritten ==
    \A s \in Streams :
        \A i \in 1..Len(streams[s].written) :
            \E f \in files :
                /\ f.path = <<streams[s].folder, ClipsDir, streams[s].written[i].name>>
                /\ f.closed
                /\ f.data = streams[s].written[i].data

\* C19: over one and the same set of folder names the local scan returns
\* the name the remote scan returns.
C19_LocalScanEqualsRemoteScan ==
    (/\ seqResult.via = "local"
     /\ TopDirs(dirs) = {f.title : f \in RootFolders(drive)})
        => seqResult.name = NextFolderNameFromListing(drive)

\* C20: a segment_video run that failed on the extraction of clip k
\* extracts nothing afterwards, has returned no list, and the clips
\* 1 .. k-1 it produced are still in the cache directory.
C20_FailedRunKeepsEarlierClips ==
    /\ [](seg.pc = "failed" =>
             /\ Len(seg.cmds) = seg.i
             /\ \A k \in 1..seg.i :
                   /\ seg.cmds[k].out = SegClipFilename(k - 1)
                   /\ SegClipFilename(k - 1) \in seg.cache)
    /\ [][seg.pc = "failed" => seg' = seg]_vars

\* C20 witness: the extraction of the third clip failed
C20_Witness == seg.pc = "failed" /\ seg.i = 2 /\ seg.num_clips > 2

\* C21: a details or play request for a session whose folder, metadata or
\* clips are missing is answered with 404, never with 500.
C21_MissingIsNotFound ==
    \A j \in 1..Len(http) : http[j].missing => http[j].status = 404

\* what GET /api/drive_space shows of the estimate
SpaceShown(sp) == <<sp.used, sp.free, sp.total, sp.percentage>>

\* C22: used, free, total and percentage change only in a step in which
\* upload_to_drive has sent a file: a call that skips the transfer, a call
\* that fails, and every other operation leave them as they are.
C22_SpaceChangesOnlyOnConfirmedUpload ==
    [][SpaceShown(space') # SpaceShown(space)
          => \E o \in drive' \ drive : ~o.isFolder]_vars

\* C22 witness: after a confirmed upload, a second call that skipped the
\* transfer left the estimate of the first in place
C22_Witness ==
    /\ \E i, j \in 1..Len(uploads) :
          /\ i < j
          /\ uploads[i].folder = uploads[j].folder
          /\ uploads[i].status = 200
          /\ uploads[j].status = 200
    /\ space = IncrementDriveSpace(InitialSpace, FileSize(PatientText("m1", "Pending", "")))

\* C24: the remote patient.txt of a session holds the metadata of the last
\* submission that returned success for that session.
C24_RemoteHoldsLastSubmission ==
    \A j \in 1..Len(uploads) :
        (/\ uploads[j].status = 200
         /\ \A k \in (j + 1)..Len(uploads) :
               ~(uploads[k].folder = uploads[j].folder /\ uploads[k].status = 200))
            => RemoteInfo(drive, uploads[j].folder)
                  = {PatientText(uploads[j].meta, "Pending", "")}

\* the clip files a session's staging Clips directory may come to hold
StagingClipPaths ==
    {<<folder, ClipsDir, name>> :
        folder \in FolderInputs,
        name \in {ClipFilename(n) : n \in 1..MaxChunks} \cup DroppedNames}

\* the file at path p is complete under its final name
Finalized(p) == \E f \in files : f.path = p /\ f.closed

\* the remote folder <session>/Clips holds an object of the clip's name
InRemoteClips(p) ==
    \E session \in RootFolders(drive) :
       /\ session.title = p[1]
       /\ \E clips \in FoldersNamed(drive, ClipsDir, session.id) :
             ObjectsNamed(drive, p[3], clips.id) # {}

\* C23: with the watcher thread running and the remote store failing only
\* finitely often, every clip finalized in a staging Clips directory is
\* eventually in the remote folder <session>/Clips.
C23_EveryClipEventuallyRemote ==
    \A p \in StagingClipPaths : Finalized(p) ~> InRemoteClips(p)

\* the sequence number in a clip file name Clip<number>.webm
ClipNumberOf(name) ==
    DigitsToNat(SubSeq(name, Len(ClipPrefix) + 1, Len(name) - Len(Webm)))

\* C25: the clip names, ordered as the code orders them, are in ascending
\* order of their sequence numbers.
C25_NameOrderIsNumberOrder ==
    listing.listed =>
        \A a, b \in 1..Len(listing.names) :
            a < b => ClipNumberOf(listing.names[a]) < ClipNumberOf(listing.names[b])

====
